---- MODULE Spec2Model ----
(***************************************************************************)
(* A model of the users REST service of src/main.go.  The file holds two   *)
(* variants of the service: the database-backed one (lines 1-260) and the  *)
(* in-memory one (lines 262-352).                                          *)
(*                                                                         *)
(* Strings that the code inspects character by character (query            *)
(* parameters, path ids, names and emails matched by ILIKE) are sequences  *)
(* of one-character strings; "" of Go is <<>>.                             *)
(***************************************************************************)
EXTENDS Integers, Sequences, FiniteSets, TLC

VARIABLES
    db,        \* database variant: the rows of table users (a set of records)
    nextId,    \* database variant: next value of the id sequence of the table
    now,       \* database variant: the store's clock, now()
    users,     \* in-memory variant: the package-level slice users
    req,       \* the request the last handler served
    resp,      \* the response the last handler wrote
    sql,       \* the statement the last handler sent to the store
    fault,     \* what the store did to the last handler (the environment)
    created    \* id of the user the latest write request created, 0 if it created none

vars == <<db, nextId, now, users, req, resp, sql, fault, created>>

(***************************************************************************)
(* Bounds of the model.                                                    *)
(***************************************************************************)
MaxRawLen == 3      \* longest raw limit/offset string
MaxQLen == 2        \* longest search term
MaxRows == 3        \* most rows of the store that is listed
MaxStored == 11     \* most rows the create-then-list store holds
MaxNow == 2         \* last tick of the store's clock
MaxDbUsers == 2     \* most rows of the by-id store
MaxMemUsers == 4    \* longest in-memory slice

(***************************************************************************)
(* Program constants.                                                      *)
(***************************************************************************)
DefaultLimit == 10
MaxLimit == 100
DefaultOffset == 0

\* Go strings used by the handlers
S_id == <<"i", "d">>
S_name == <<"n", "a", "m", "e">>
S_email == <<"e", "m", "a", "i", "l">>
S_asc == <<"a", "s", "c">>
S_desc == <<"d", "e", "s", "c">>

\* all strings over alphabet A of length at most n
StringsUpTo(A, n) == UNION {[1..k -> A] : k \in 0..n}

Min(a, b) == IF a < b THEN a ELSE b

(***************************************************************************)
(* gin: c.Query and c.DefaultQuery.  The query string is a map from key to *)
(* the list of its values; both take the first value.  Query gives "" for  *)
(* a missing key, DefaultQuery gives the default for a missing key only.   *)
(***************************************************************************)
Query(c, key) == IF c[key] = <<>> THEN <<>> ELSE c[key][1]

DefaultQuery(c, key, def) == IF c[key] = <<>> THEN def ELSE c[key][1]

(***************************************************************************)
(* strconv.Atoi: an optional sign, then one or more decimal digits and     *)
(* nothing else.  (Values beyond the int range are an error too; strings   *)
(* of MaxRawLen characters stay far below it.)                             *)
(***************************************************************************)
Digits == {"0", "1", "2", "3", "4", "5", "6", "7", "8", "9"}

DigitVal(ch) ==
    CASE ch = "0" -> 0 [] ch = "1" -> 1 [] ch = "2" -> 2 [] ch = "3" -> 3
      [] ch = "4" -> 4 [] ch = "5" -> 5 [] ch = "6" -> 6 [] ch = "7" -> 7
      [] ch = "8" -> 8 [] ch = "9" -> 9

RECURSIVE DecVal(_)
DecVal(s) ==
    IF s = <<>> THEN 0
    ELSE 10 * DecVal(SubSeq(s, 1, Len(s) - 1)) + DigitVal(s[Len(s)])

Atoi(s) ==
    LET signed == s # <<>> /\ s[1] \in {"+", "-"}
        body == IF signed THEN Tail(s) ELSE s
    IN  IF body # <<>> /\ \A i \in 1..Len(body) : body[i] \in Digits
        THEN [ok |-> TRUE,
              n |-> IF signed /\ s[1] = "-" THEN 0 - DecVal(body) ELSE DecVal(body)]
        ELSE [ok |-> FALSE, n |-> 0]

(***************************************************************************)
(* strings.ToUpper, on the letters the model uses.                         *)
(***************************************************************************)
UpperCh(ch) ==
    CASE ch = "a" -> "A" [] ch = "b" -> "B" [] ch = "c" -> "C" [] ch = "d" -> "D"
      [] ch = "e" -> "E" [] ch = "s" -> "S" [] OTHER -> ch

ToUpper(s) == [i \in 1..Len(s) |-> UpperCh(s[i])]

(***************************************************************************)
(* GET /users: validation of the raw parameters.                           *)
(***************************************************************************)
EffLimitMutant(c) ==
    LET l == Query(c, "limit")
        r == Atoi(l)
    IN  IF l # <<>> /\ r.ok /\ r.n >= 0 /\ r.n <= MaxLimit THEN r.n ELSE DefaultLimit

EffLimit(c) ==
    LET l == Query(c, "limit")
        r == Atoi(l)
    IN  IF l # <<>> /\ r.ok /\ r.n > 0 /\ r.n <= MaxLimit THEN r.n ELSE DefaultLimit

EffOffsetMutant(c) ==
    LET o == Query(c, "offset")
        r == Atoi(o)
    IN  IF o # <<>> /\ r.ok THEN r.n ELSE DefaultOffset

EffOffset(c) ==
    LET o == Query(c, "offset")
        r == Atoi(o)
    IN  IF o # <<>> /\ r.ok /\ r.n >= 0 THEN r.n ELSE DefaultOffset

validSort == {S_id, S_name, S_email}

EffSortMutant(c) == DefaultQuery(c, "sort", S_id)

EffSort(c) ==
    LET sortBy == DefaultQuery(c, "sort", S_id)
    IN  IF sortBy \notin validSort THEN S_id ELSE sortBy

EffOrderMutant(c) ==
    LET order == DefaultQuery(c, "order", S_asc)
    IN  IF ToUpper(order) \notin {ToUpper(S_asc), ToUpper(S_desc)} THEN S_asc ELSE order

EffOrder(c) ==
    LET order == DefaultQuery(c, "order", S_asc)
    IN  IF order # S_asc /\ order # S_desc THEN S_asc ELSE order

(***************************************************************************)
(* GET /users: the statement built.  where says whether the WHERE clause   *)
(* was appended, args are the bound parameters, orderBy and dir are the    *)
(* two strings interpolated after ORDER BY, limit and offset the integers  *)
(* interpolated after LIMIT and OFFSET.                                    *)
(***************************************************************************)
BuildQueryMutant(c) ==
    LET q == Query(c, "q")
    IN  [stmt |-> "select",
         where |-> q # <<>>,
         args |-> IF q # <<>> THEN << <<"%">> \o q \o <<"%">> >> ELSE <<>>,
         orderBy |-> EffSort(c),
         dir |-> ToUpper(EffOrder(c)),
         limit |-> EffOffset(c),
         offset |-> EffLimit(c)]

BuildQuery(c) ==
    LET q == Query(c, "q")
    IN  [stmt |-> "select",
         where |-> q # <<>>,
         args |-> IF q # <<>> THEN << <<"%">> \o q \o <<"%">> >> ELSE <<>>,
         orderBy |-> EffSort(c),
         dir |-> ToUpper(EffOrder(c)),
         limit |-> EffLimit(c),
         offset |-> EffOffset(c)]

(***************************************************************************)
(* The store: evaluation of the SELECT of GET /users.                      *)
(*                                                                         *)
(* ILIKE: in the pattern, % matches any run of characters, _ matches any   *)
(* one character, \ makes the next pattern character literal, and every    *)
(* other character matches itself; letters match without regard to case.   *)
(***************************************************************************)
LowerCh(ch) == CASE ch = "A" -> "a" [] ch = "B" -> "b" [] OTHER -> ch

RECURSIVE Like(_, _)
Like(t, p) ==
    IF p = <<>> THEN t = <<>>
    ELSE IF p[1] = "%" THEN Like(t, Tail(p)) \/ (t # <<>> /\ Like(Tail(t), p))
    ELSE IF p[1] = "_" THEN t # <<>> /\ Like(Tail(t), Tail(p))
    ELSE IF p[1] = "\\"
         THEN Len(p) >= 2 /\ t # <<>> /\ t[1] = p[2] /\ Like(Tail(t), Tail(Tail(p)))
    ELSE t # <<>> /\ t[1] = p[1] /\ Like(Tail(t), Tail(p))

ILike(t, p) == Like([i \in 1..Len(t) |-> LowerCh(t[i])], [i \in 1..Len(p) |-> LowerCh(p[i])])

\* WHERE name ILIKE $1 OR email ILIKE $1
Where(rows, query) ==
    IF query.where
    THEN {u \in rows : ILike(u.name, query.args[1]) \/ ILike(u.email, query.args[1])}
    ELSE rows

\* the order of text values (by code point)
CharRank(ch) ==
    CASE ch = "%" -> 37 [] ch = "A" -> 65 [] ch = "B" -> 66 [] ch = "\\" -> 92
      [] ch = "_" -> 95 [] ch = "a" -> 97 [] ch = "b" -> 98 [] OTHER -> 127

RECURSIVE StrLess(_, _)
StrLess(a, b) ==
    IF b = <<>> THEN FALSE
    ELSE IF a = <<>> THEN TRUE
    ELSE IF a[1] = b[1] THEN StrLess(Tail(a), Tail(b))
    ELSE CharRank(a[1]) < CharRank(b[1])

KeyLess(u, v, col) ==
    IF col = S_id THEN u.id < v.id
    ELSE IF col = S_name THEN StrLess(u.name, v.name)
    ELSE StrLess(u.email, v.email)

\* ASC and DESC are keywords, read without regard to case
Descending(dir) == ToUpper(dir) = <<"D", "E", "S", "C">>

Before(u, v, col, dir) == IF Descending(dir) THEN KeyLess(v, u, col) ELSE KeyLess(u, v, col)

\* ORDER BY col dir: every sequence of the rows that respects the order; rows
\* with equal keys come in any order
RECURSIVE OrderBy(_, _, _)
OrderBy(rows, col, dir) ==
    IF rows = {} THEN {<<>>}
    ELSE UNION {{<<m>> \o t : t \in OrderBy(rows \ {m}, col, dir)} :
                m \in {x \in rows : \A y \in rows : ~Before(y, x, col, dir)}}

\* LIMIT limit OFFSET offset
Page(s, limit, offset) ==
    IF offset >= Len(s) THEN <<>> ELSE SubSeq(s, offset + 1, Min(Len(s), offset + limit))

\* a statement the store cannot run: an unknown column or direction after
\* ORDER BY, a negative LIMIT or OFFSET
Malformed(query) ==
    \/ query.orderBy \notin {S_id, S_name, S_email}
    \/ ToUpper(query.dir) \notin {<<"A", "S", "C">>, <<"D", "E", "S", "C">>}
    \/ query.limit < 0
    \/ query.offset < 0

\* the row sequences the statement may produce
Select(rows, query) ==
    {Page(s, query.limit, query.offset) :
        s \in OrderBy(Where(rows, query), query.orderBy, query.dir)}

(***************************************************************************)
(* What the store and the driver may do to a statement that yields n rows: *)
(* run it (none), fail it when it is issued (query), break the cursor      *)
(* after at rows so that rows.Next() returns false with rows.Err() set     *)
(* (next), or hand over a row at that rows.Scan cannot decode (scan).      *)
(***************************************************************************)
NoFault == [kind |-> "none", at |-> 0]

QueryFault == [kind |-> "query", at |-> 0]

Faults(n) ==
    {NoFault, QueryFault}
        \cup {[kind |-> "next", at |-> i] : i \in 0..n}
        \cup {[kind |-> "scan", at |-> i] : i \in 1..n}

(***************************************************************************)
(* GET /users (database variant).                                          *)
(***************************************************************************)
StoreError == [status |-> 500, error |-> "store"]

\* the response, given the rows the cursor holds and what the store did
ListResponse(c, rows, f) ==
    IF f.kind = "query" THEN StoreError          \* db.Query returned err
    ELSE IF f.kind = "scan" THEN StoreError      \* rows.Scan returned err
    ELSE [status |-> 200,
          items |-> IF f.kind = "next" THEN SubSeq(rows, 1, f.at) ELSE rows,
          limit |-> EffLimit(c),
          offset |-> EffOffset(c),
          sort |-> EffSort(c),
          order |-> EffOrder(c),
          query |-> Query(c, "q")]

ListUsers(c) ==
    LET query == BuildQuery(c)
    IN  /\ req' = [op |-> "list", params |-> c]
        /\ sql' = query
        /\ IF Malformed(query)
           THEN fault' = QueryFault /\ resp' = StoreError
           ELSE \E rows \in Select(db, query) :
                    \E f \in Faults(Len(rows)) :
                        fault' = f /\ resp' = ListResponse(c, rows, f)
        /\ UNCHANGED <<db, nextId, now, users, created>>

(***************************************************************************)
(* Requests and stores of the listing specification.                       *)
(***************************************************************************)
NoParams == [q |-> <<>>, sort |-> <<>>, order |-> <<>>, limit |-> <<>>, offset |-> <<>>]

\* a key that is missing, or present with one value of S
Opt(S) == {<<>>} \cup {<<s>> : s \in S}

RawNums == StringsUpTo({"0", "1", "+", "-", "a"}, MaxRawLen)

RawSorts ==
    {<<>>, S_id, S_name, S_email, <<"I", "D">>, <<"N", "a", "m", "e">>,
     <<"p", "a", "s", "s", "w", "o", "r", "d">>, <<"i", "d", ";">>}

RawOrders ==
    {<<>>, S_asc, S_desc, <<"D", "E", "S", "C">>, <<"D", "e", "s", "c">>,
     <<"A", "S", "C">>, <<"d", "e", "s", "c", " ">>}

QChars == {"a", "A", "b", "%", "_"}

RawQs == StringsUpTo(QChars, MaxQLen)

ListRequests ==
    {[NoParams EXCEPT !.limit = l, !.offset = o] :
        l \in Opt(RawNums), o \in Opt({<<"1">>, <<"-", "1">>})}
    \cup {[NoParams EXCEPT !.offset = o, !.limit = l] :
        o \in Opt(RawNums), l \in Opt({<<"2">>})}
    \cup {[NoParams EXCEPT !.sort = s, !.order = o, !.limit = l] :
        s \in Opt(RawSorts), o \in Opt(RawOrders), l \in Opt({<<"2">>, <<"2", "0", "0">>})}
    \cup {[NoParams EXCEPT !.q = q, !.sort = s, !.order = o] :
        q \in Opt(RawQs), s \in Opt({S_name}), o \in Opt({S_desc})}

Row(id, name, email, c, u) ==
    [id |-> id, name |-> name, email |-> email, created_at |-> c, updated_at |-> u]

SampleRows ==
    << Row(1, <<"A", "b">>, <<"b", "%">>, 1, 1),
       Row(2, <<"b">>, <<"a", "_", "a">>, 1, 2),
       Row(4, <<"b">>, <<"B", "a">>, 2, 2),
       Row(5, <<"a", "a">>, <<>>, 2, 3),
       Row(7, <<"_">>, <<"a">>, 3, 3) >>

ListStores == {{SampleRows[i] : i \in 1..n} : n \in 0..MaxRows}

InitList ==
    /\ db \in ListStores
    /\ nextId = 8
    /\ now = 3
    /\ users = <<>>
    /\ req \in {[op |-> "list", params |-> c] : c \in ListRequests}
    /\ resp = [status |-> 0]
    /\ sql = [stmt |-> "none"]
    /\ fault = NoFault
    /\ created = 0

\* the pending request is served
ServeList == resp.status = 0 /\ ListUsers(req.params)

NextList == ServeList

SpecList == InitList /\ [][NextList]_vars

(***************************************************************************)
(* Claims about GET /users, checked under SpecList.                        *)
(***************************************************************************)
Served == req.op = "list" /\ resp.status # 0

\* the store let the handler reach its 200 response
Answered == fault.kind \notin {"query", "scan"}

\* C1: the sort field interpolated after ORDER BY is the raw sort value when
\* that value is one of id, name, email, and id otherwise; so it is always one
\* of the three, and the envelope reports it.
C1_SortAllowListed ==
    Served =>
        LET raw == req.params.sort
            expected == IF raw # <<>> /\ raw[1] \in {S_id, S_name, S_email}
                        THEN raw[1] ELSE S_id
        IN  /\ sql.orderBy \in {S_id, S_name, S_email}
            /\ sql.orderBy = expected
            /\ resp.status = 200 => resp.sort = expected

C1_Witness ==
    /\ Served
    /\ req.params.sort = << <<"i", "d", ";">> >>
    /\ sql.orderBy = S_id
    /\ resp.status = 200

\* C2: the effective limit is the parsed integer n when the raw value parses
\* and 1 <= n <= 100, and 10 otherwise; the statement and the envelope carry
\* it, and only a store failure keeps the request from its 200.
C2_EffectiveLimit ==
    Served =>
        LET raw == req.params.limit
            r == Atoi(raw[1])
            expected == IF raw # <<>> /\ r.ok /\ 1 <= r.n /\ r.n <= 100 THEN r.n ELSE 10
        IN  /\ sql.limit = expected
            /\ resp.status \in {200, 500}
            /\ Answered => resp.status = 200 /\ resp.limit = expected
            /\ resp.status = 200 => Len(resp.items) <= expected

C2_Witness ==
    /\ Served
    /\ req.params.limit = << <<"1", "0", "1">> >>
    /\ resp.status = 200
    /\ resp.limit = 10
    /\ Len(resp.items) = 3

\* C3: the effective offset is the parsed integer n when the raw value parses
\* and n >= 0, and 0 otherwise; the statement and the envelope carry it, and
\* only a store failure keeps the request from its 200.
C3_EffectiveOffset ==
    Served =>
        LET raw == req.params.offset
            r == Atoi(raw[1])
            expected == IF raw # <<>> /\ r.ok /\ r.n >= 0 THEN r.n ELSE 0
        IN  /\ sql.offset = expected
            /\ resp.status \in {200, 500}
            /\ Answered => resp.status = 200 /\ resp.offset = expected

C3_Witness ==
    /\ Served
    /\ req.params.offset = << <<"-", "1">> >>
    /\ resp.status = 200
    /\ resp.offset = 0
    /\ Len(resp.items) = 3

\* C4: the effective direction is the raw order value when that is exactly
\* asc or desc, and asc otherwise; the envelope reports it, the statement
\* carries its keyword, and the items come sorted in that direction.
C4_EffectiveOrder ==
    Served =>
        LET raw == req.params.order
            expected == IF raw = <<S_asc>> \/ raw = <<S_desc>> THEN raw[1] ELSE S_asc
        IN  /\ sql.dir = (IF expected = S_asc THEN <<"A", "S", "C">>
                                             ELSE <<"D", "E", "S", "C">>)
            /\ resp.status = 200 =>
                /\ resp.order = expected
                /\ \A i, j \in 1..Len(resp.items) :
                       i < j =>
                           IF expected = S_asc
                           THEN ~KeyLess(resp.items[j], resp.items[i], sql.orderBy)
                           ELSE ~KeyLess(resp.items[i], resp.items[j], sql.orderBy)

C4_Witness ==
    /\ Served
    /\ req.params.order = << <<"D", "E", "S", "C">> >>
    /\ resp.status = 200
    /\ resp.order = S_asc
    /\ Len(resp.items) = 2
    /\ resp.items[1].id < resp.items[2].id

\* t contains q as a substring
Contains(t, q) == \E i \in 0..(Len(t) - Len(q)) : SubSeq(t, i + 1, i + Len(q)) = q

\* C5: a stored user passes the filter exactly when q is empty or its name or
\* email contains q, character by character and without regard to case; the
\* items are the page of the users that pass.
C5_VerbatimSubstring ==
    (Served /\ fault = NoFault /\ resp.status = 200) =>
        LET q == [i \in 1..Len(resp.query) |-> LowerCh(resp.query[i])]
            low(t) == [i \in 1..Len(t) |-> LowerCh(t[i])]
            passing == {u \in db : q = <<>> \/ Contains(low(u.name), q)
                                             \/ Contains(low(u.email), q)}
        IN  resp.items \in {Page(s, resp.limit, resp.offset) :
                               s \in OrderBy(passing, resp.sort, resp.order)}

\* C6: a store failure, when the statement is issued or while the rows are
\* read, gives a 500; a 200 envelope carries every row of the page.
C6_NoPartialResults ==
    Served =>
        /\ fault.kind # "none" => resp.status = 500
        /\ resp.status = 200 => resp.items \in Select(db, sql)

(***************************************************************************)
(* The by-id and create handlers of the database variant.                  *)
(*                                                                         *)
(* The store reads the id parameter, sent as text, as an integer: an       *)
(* optional sign and decimal digits; anything else is an error of the      *)
(* statement.                                                              *)
(***************************************************************************)
ParseId(id) == Atoi(id)

\* the rows WHERE id=$1 selects
DbFind(id) == {u \in db : u.id = ParseId(id).n}

\* the unique constraint on email: another row holds the value
EmailTaken(email, self) == \E u \in db : u.email = email /\ u.id # self

\* the row INSERT INTO users (name, email) makes: id from the sequence,
\* created_at and updated_at from their default, now()
Inserted(name, email) == Row(nextId, name, email, now, now)

\* the row UPDATE ... SET name=$2, email=$3, updated_at=now() leaves
Updated(u, name, email) == [u EXCEPT !.name = name, !.email = email, !.updated_at = now]

\* request bodies: ok is whether ShouldBindJSON accepts the body; a field the
\* body leaves out keeps its zero value
BadBody == [ok |-> FALSE]

DbBody(name, email) == [ok |-> TRUE, Name |-> name, Email |-> email]

NotFound == [status |-> 404, error |-> "user not found"]

BadRequest == [status |-> 400, error |-> "bind"]

DbFrame == UNCHANGED <<now, users>>

\* time passes in the store
Tick ==
    /\ now < MaxNow
    /\ now' = now + 1
    /\ UNCHANGED <<db, nextId, users, req, resp, sql, fault, created>>

\* GET /users/:id
GetUser(id) ==
    \E f \in {NoFault, QueryFault} :
        LET err == f = QueryFault \/ ~ParseId(id).ok \/ DbFind(id) = {}
        IN  /\ req' = [op |-> "get", id |-> id]
            /\ sql' = [stmt |-> "select-by-id", args |-> <<id>>]
            /\ fault' = f
            /\ resp' = IF err THEN NotFound
                       ELSE [status |-> 200, user |-> CHOOSE u \in DbFind(id) : TRUE]
            /\ UNCHANGED <<db, nextId, created>>
            /\ DbFrame

\* POST /users
CreateUser(body) ==
    /\ req' = [op |-> "post", body |-> body]
    /\ IF ~body.ok
       THEN /\ resp' = BadRequest
            /\ sql' = [stmt |-> "none"]
            /\ fault' = NoFault
            /\ created' = 0
            /\ UNCHANGED <<db, nextId>>
       ELSE /\ sql' = [stmt |-> "insert", args |-> <<body.Name, body.Email>>]
            /\ \E f \in {NoFault, QueryFault} :
                /\ fault' = f
                /\ IF f = QueryFault
                   THEN /\ resp' = StoreError
                        /\ created' = 0
                        /\ UNCHANGED <<db, nextId>>
                   ELSE IF EmailTaken(body.Email, 0)
                   THEN /\ resp' = StoreError
                        /\ created' = 0
                        /\ nextId' = nextId + 1
                        /\ UNCHANGED db
                   ELSE LET u == Inserted(body.Name, body.Email)
                        IN  /\ db' = db \cup {u}
                            /\ nextId' = nextId + 1
                            /\ resp' = [status |-> 201, user |-> u]
                            /\ created' = u.id
    /\ DbFrame

\* PUT /users/:id
UpdateUser(id, body) ==
    /\ req' = [op |-> "put", id |-> id, body |-> body]
    /\ created' = 0
    /\ IF ~body.ok
       THEN /\ resp' = BadRequest
            /\ sql' = [stmt |-> "none"]
            /\ fault' = NoFault
            /\ UNCHANGED db
       ELSE /\ sql' = [stmt |-> "update", args |-> <<id, body.Name, body.Email>>]
            /\ \E f \in {NoFault, QueryFault} :
                LET err == \/ f = QueryFault
                           \/ ~ParseId(id).ok
                           \/ DbFind(id) = {}
                           \/ EmailTaken(body.Email, ParseId(id).n)
                    old == CHOOSE u \in DbFind(id) : TRUE
                    new == Updated(old, body.Name, body.Email)
                IN  /\ fault' = f
                    /\ IF err
                       THEN resp' = NotFound /\ UNCHANGED db
                       ELSE /\ db' = (db \ {old}) \cup {new}
                            /\ resp' = [status |-> 200, user |-> new]
    /\ UNCHANGED nextId
    /\ DbFrame

\* DELETE /users/:id
DeleteUser(id) ==
    /\ req' = [op |-> "delete", id |-> id]
    /\ created' = 0
    /\ sql' = [stmt |-> "delete", args |-> <<id>>]
    /\ \E f \in {NoFault, QueryFault} :
        /\ fault' = f
        /\ IF f = QueryFault \/ ~ParseId(id).ok
           THEN resp' = StoreError /\ UNCHANGED db
           ELSE IF DbFind(id) = {}
           THEN resp' = NotFound /\ UNCHANGED db
           ELSE /\ db' = db \ DbFind(id)
                /\ resp' = [status |-> 200, message |-> "user deleted"]
    /\ UNCHANGED nextId
    /\ DbFrame

(***************************************************************************)
(* The by-id specification: a store that starts empty.                     *)
(***************************************************************************)
DbPathIds == {<<"1">>, <<"2">>, <<"+", "1">>, <<"a">>}

DbBodies == {BadBody, DbBody(<<>>, <<>>), DbBody(<<"a">>, <<"a">>), DbBody(<<"b">>, <<"a">>)}

InitDb ==
    /\ db = {}
    /\ nextId = 1
    /\ now = 1
    /\ users = <<>>
    /\ req = [op |-> "none"]
    /\ resp = [status |-> 0]
    /\ sql = [stmt |-> "none"]
    /\ fault = NoFault
    /\ created = 0

NextDb ==
    \/ Tick
    \/ \E body \in DbBodies : nextId <= MaxDbUsers /\ CreateUser(body)
    \/ \E id \in DbPathIds : GetUser(id)
    \/ \E id \in DbPathIds, body \in DbBodies : UpdateUser(id, body)
    \/ \E id \in DbPathIds : DeleteUser(id)
    \/ ListUsers(NoParams)

SpecDb == InitDb /\ [][NextDb]_vars

\* C7: on GET, PUT and DELETE /users/:id the response is 404 exactly when no
\* stored user has the id of the path: a user that exists is served, and a
\* store failure gives 500.
C7_NotFoundIffAbsent ==
    req.op \in {"get", "put", "delete"} =>
        LET held == \E u \in db : ParseId(req.id).ok /\ u.id = ParseId(req.id).n
        IN  /\ resp.status = 404 => ~held
            /\ fault = QueryFault => resp.status = 500
            /\ (req.op = "get" /\ fault = NoFault /\ ~held) => resp.status = 404

(***************************************************************************)
(* The create-then-list specification: a store that already holds up to    *)
(* MaxStored users, made by as many earlier creates.                       *)
(***************************************************************************)
\* the email of the i-th earlier user: i times the letter a
StoredEmail(i) == [k \in 1..i |-> "a"]

StoredRows(n) == {Row(i, <<"a">>, StoredEmail(i), 1, 1) : i \in 1..n}

NewBodies == {BadBody, DbBody(<<"b">>, <<"b">>), DbBody(<<>>, <<"a">>)}

InitCreateList ==
    /\ \E n \in 0..MaxStored : db = StoredRows(n) /\ nextId = n + 1
    /\ now = 1
    /\ users = <<>>
    /\ req = [op |-> "none"]
    /\ resp = [status |-> 0]
    /\ sql = [stmt |-> "none"]
    /\ fault = NoFault
    /\ created = 0

NextCreateList ==
    \/ Tick
    \/ \E body \in NewBodies : nextId <= MaxStored + 1 /\ CreateUser(body)
    \/ \E c \in {NoParams, [NoParams EXCEPT !.offset = << <<"1">> >>]} : ListUsers(c)

SpecCreateList == InitCreateList /\ [][NextCreateList]_vars

\* the listing right after a successful create: default parameters, and the
\* store ran the statement
ListedAfterCreate ==
    /\ req.op = "list"
    /\ req.params = NoParams
    /\ created # 0
    /\ fault = NoFault

\* the created user is among the items, with created_at equal to updated_at
CreatedListed ==
    \E i \in 1..Len(resp.items) :
        /\ resp.items[i].id = created
        /\ resp.items[i].created_at = resp.items[i].updated_at

\* C10 as stated: after a create, a listing with default parameters returns an
\* envelope whose items include the created user, with created_at equal to
\* updated_at, whatever users the store held.
C10_CreatedIsListed ==
    ListedAfterCreate => resp.status = 200 /\ CreatedListed

\* C10 amended: the same when the store holds at most 10 users after the
\* create; with more users the created user is not in the first page.
C10_CreatedIsListedInFirstPage ==
    ListedAfterCreate =>
        /\ resp.status = 200
        /\ IF Cardinality(db) <= 10
           THEN CreatedListed
           ELSE \A i \in 1..Len(resp.items) : resp.items[i].id # created

C10_Witness ==
    /\ ListedAfterCreate
    /\ resp.status = 200
    /\ Cardinality(db) = 10
    /\ CreatedListed

(***************************************************************************)
(* The in-memory variant (src/main.go:262-352).  Handlers run one at a     *)
(* time on the package-level slice users.                                  *)
(***************************************************************************)
MemUser(id, name, email) == [ID |-> id, Name |-> name, Email |-> email]

MemInitUsers ==
    << MemUser(1, "John Doe", "john@example.com"),
       MemUser(2, "Jane Smith", "jane@example.com"),
       MemUser(3, "Alice Johnson", "alice@example.com") >>

\* string(rune(id + '0')): the one character whose code point is id + 48
RuneStr(id) ==
    CASE id = 0 -> <<"0">> [] id = 1 -> <<"1">> [] id = 2 -> <<"2">> [] id = 3 -> <<"3">>
      [] id = 4 -> <<"4">> [] id = 5 -> <<"5">> [] id = 6 -> <<"6">> [] id = 7 -> <<"7">>
      [] id = 8 -> <<"8">> [] id = 9 -> <<"9">> [] id = 10 -> <<":">> [] id = 11 -> <<";">>
      [] OTHER -> <<"other">>

\* index of the first user the loop `for i, u := range users` matches, 0 if none
MemFind(id) ==
    LET hits == {i \in 1..Len(users) : id = RuneStr(users[i].ID)}
    IN  IF hits = {} THEN 0 ELSE CHOOSE i \in hits : \A j \in hits : i <= j

\* request bodies; a field the body leaves out keeps its zero value
MemBody(id, name, email) == [ok |-> TRUE, ID |-> id, Name |-> name, Email |-> email]

MemBodies ==
    {BadBody, MemBody(0, "", ""), MemBody(0, "Bob", "bob@example.com"),
     MemBody(10, "Bob", "bob@example.com")}

PathIds == {<<"0">>, <<"1">>, <<"2">>, <<"3">>, <<"4">>, <<":">>, <<"1", "0">>, <<"a">>}

MemFrame == UNCHANGED <<db, nextId, now, sql, fault>>

\* GET /users
MemListUsers ==
    /\ req' = [op |-> "list"]
    /\ resp' = [status |-> 200, items |-> users]
    /\ UNCHANGED <<users, created>>
    /\ MemFrame

\* GET /users/:id
MemGetUser(id) ==
    /\ req' = [op |-> "get", id |-> id]
    /\ resp' = IF MemFind(id) # 0
               THEN [status |-> 200, user |-> users[MemFind(id)]]
               ELSE [status |-> 404, error |-> "User not found"]
    /\ UNCHANGED <<users, created>>
    /\ MemFrame

\* POST /users
MemCreateUser(body) ==
    /\ Len(users) < MaxMemUsers
    /\ req' = [op |-> "post", body |-> body]
    /\ IF ~body.ok
       THEN /\ resp' = [status |-> 400, error |-> "bind"]
            /\ created' = 0
            /\ UNCHANGED users
       ELSE LET newUser == MemUser(Len(users) + 1, body.Name, body.Email)
            IN  /\ users' = Append(users, newUser)
                /\ resp' = [status |-> 201, user |-> newUser]
                /\ created' = newUser.ID
    /\ MemFrame

\* PUT /users/:id
MemUpdateUser(id, body) ==
    LET i == MemFind(id)
    IN  /\ req' = [op |-> "put", id |-> id, body |-> body]
        /\ created' = 0
        /\ IF i = 0
           THEN resp' = [status |-> 404, error |-> "User not found"] /\ UNCHANGED users
           ELSE IF ~body.ok
           THEN resp' = [status |-> 400, error |-> "bind"] /\ UNCHANGED users
           ELSE LET updatedUser == MemUser(body.ID, body.Name, body.Email)
                IN  /\ users' = [users EXCEPT ![i] = updatedUser]
                    /\ resp' = [status |-> 200, user |-> updatedUser]
        /\ MemFrame

\* DELETE /users/:id
MemDeleteUser(id) ==
    LET i == MemFind(id)
    IN  /\ req' = [op |-> "delete", id |-> id]
        /\ created' = 0
        /\ IF i = 0
           THEN resp' = [status |-> 404, error |-> "User not found"] /\ UNCHANGED users
           ELSE /\ users' = SubSeq(users, 1, i - 1) \o SubSeq(users, i + 1, Len(users))
                /\ resp' = [status |-> 200, message |-> "User deleted"]
        /\ MemFrame

InitMem ==
    /\ db = {}
    /\ nextId = 1
    /\ now = 1
    /\ users = MemInitUsers
    /\ req = [op |-> "none"]
    /\ resp = [status |-> 0]
    /\ sql = [stmt |-> "none"]
    /\ fault = NoFault
    /\ created = 0

NextMem ==
    \/ MemListUsers
    \/ \E id \in PathIds : MemGetUser(id)
    \/ \E body \in MemBodies : MemCreateUser(body)
    \/ \E id \in PathIds, body \in MemBodies : MemUpdateUser(id, body)
    \/ \E id \in PathIds : MemDeleteUser(id)

SpecMem == InitMem /\ [][NextMem]_vars

(***************************************************************************)
(* Claims checked on the in-memory variant, under SpecMem.                 *)
(***************************************************************************)
\* C8: after any sequence of creates, updates and deletes, no two stored
\* users have the same id.
C8_UniqueIds ==
    \A i, j \in 1..Len(users) : i # j => users[i].ID # users[j].ID

\* C9: a successful PUT /users/:id leaves the user it updates with the id of
\* the path: the stored user that the response reports has that id.
C9_IdImmutable ==
    (req.op = "put" /\ resp.status = 200) =>
        /\ Atoi(req.id).ok
        /\ resp.user.ID = Atoi(req.id).n
        /\ \E i \in 1..Len(users) : users[i] = resp.user

====
